---- MODULE Spec2Model ----
(***************************************************************************)
(* Model of the ISS pass search of the prediction manager                  *)
(* (src/unnamed/part_000, calculateISSPasses and its helpers).             *)
(*                                                                         *)
(* Units.  Times are milliseconds, as Date.getTime() returns them.         *)
(* Elevations are hundredths of a degree, so that the rounding of          *)
(* maxEl.toFixed(1) (to tenths of a degree) is a real operation.           *)
(*                                                                         *)
(* The elevation of a sample is the result of propagate / eciToEcf /       *)
(* ecfToLookAngles of satellite.js for the fetched TLE and the observer;   *)
(* the model draws it from ElevValues, or lets propagate fail.             *)
(***************************************************************************)
EXTENDS Integers, Sequences, FiniteSets, TLC

(* ---------------------------- bounds ----------------------------------- *)

\* ISSDataManager: refresh intervals that the clock runs through, fetches
\* started and setInterval timers created in one run.
MaxTicks == 4
MaxRequests == 4
MaxIntervals == 2

\* withRetry: the largest number of attempts asked for.
MaxAttempts == 4

\* CacheService: milliseconds that Date.now() runs through.
MaxCacheTime == 3

\* useISSPosition: fetches started by one hook.
MaxFetches == 3

\* Largest time window (hours) a call is made with.
MaxHours == 2

(* ----------------------- inputs of the model --------------------------- *)

\* The searches of a run: one, or two at the same time.
CallIds == {1, 2}

\* Time windows: parseInt(...) || 72 of findPasses yields any non-zero
\* integer; -1 stands for the negative ones.
HoursChoices == {-1} \cup (1..MaxHours)

\* Step sizes in seconds.  The program uses the default of 30 s; the model
\* scales the step up so that a window holds a handful of samples.
StepChoices == {1800, 3600}

\* Time windows of the runs with two searches at the same time.
ConcurrentHoursChoices == {1}

\* minElevation in hundredths of a degree: 10 (the default) and 10.04.
MinElevationChoices == {1000, 1004}

\* Sampled elevations in hundredths of a degree: -20, 5, 10.04 and 20.
ElevValues == {-2000, 500, 1004, 2000}

\* Values of new Date() when the TLE has arrived.
StartTimes == {0, 1000}

\* The value of a form field that is not a number (parseFloat / parseInt
\* return NaN for it).
NaN == -999999

\* parseFloat(...) || 10, in hundredths of a degree
DefaultMinElevation == 1000

\* parseInt(...) || 72
DefaultTimeWindow == 72

\* Values of the min-elevation field, in hundredths of a degree: not a
\* number, 0 (the smallest value the form accepts), 10 and 10.04.
MinElevationFields == {NaN, 0} \cup MinElevationChoices

\* Values of the time-window field, in tenths of an hour: not a number, 0,
\* 1.5, and the whole hours of HoursChoices.
TimeWindowFields == {NaN, 0, 15} \cup {10 * h : h \in HoursChoices}

(* --------------------------- constants --------------------------------- *)

\* let maxEl = -90 (degrees), in hundredths of a degree
InitialMaxEl == -9000

\* hours * 3600 * 1000
MsPerHour == 3600000

\* stepSeconds * 1000
MsPerSecond == 1000

\* null of aos / tca (every Date of the model is >= 0)
NULL == -1

(* ----------------------------- state ----------------------------------- *)

VARIABLES
  active,        \* the calls that are made in this run
  pc,            \* position of each call
  minElevation,  \* parameter minElevation
  hours,         \* parameter hours
  stepSeconds,   \* parameter stepSeconds
  startTime,     \* const startTime
  endTime,       \* const endTime
  t,             \* loop variable t
  inPass,        \* let inPass
  aos,           \* let aos
  tca,           \* let tca
  maxEl,         \* let maxEl
  passes,        \* const passes
  result,        \* the value the call's promise resolved with
  samples,       \* the samples taken so far, in order: [t, ok, el]
  fieldMinElevation,  \* value of the min-elevation field at the click
  fieldTimeWindow,    \* value of the time-window field at the click
  cutoff,        \* the caller of the scan has raised its cutoff
  calcOp,        \* the calculation of space-calculations.ts last made
  calcArgs,      \* its arguments
  calcValue,     \* the value it returned
  clock,               \* ISSDataManager: milliseconds since its construction
  requests,          \* the fetches of fetchISSPosition, in order of start
  currentController, \* this.currentController: a request's controller
  intervals,         \* the setInterval timers created: time due, or NULL
  updateInterval,    \* this.updateInterval: one of the timers, or NULL
  modalOpen,         \* 'prediction-modal-opened' was the last modal event
  retryPc,       \* withRetry: where the outermost call is
  retryN,        \* the attempts it was called with
  attempts,      \* parameter attempts of the innermost call
  retryCalls,    \* how many times operation was invoked
  retryLog,      \* the outcomes of the invocations that settled, in order
  retryResult,   \* what the outermost promise settled with
  cache,         \* CacheService.cache: key -> [data, timestamp, ttl]
  cacheNow,      \* Date.now()
  cacheOp,       \* the CacheService call last made
  getKey,        \* the key of the last get
  getValue,      \* what the last get returned
  lastSet,       \* history: the most recent set of each key
  clearedKeys,   \* history: the keys cleared since their most recent set
  layerEnabled,  \* layer.enabled of each layer of worldWindow.layers
  layerOp,       \* the layer operation last made
  hookPosition,  \* useISSPosition: state position of each hook
  hookLoading,   \* state loading
  hookError,     \* state error
  hookPending,   \* the fetches of updatePosition that have not settled
  hookFetches,   \* how many fetches the hook has started
  lastCompleted  \* history: the fetch that settled last, and how

\* The variables of the pass search.
scanVars == <<fieldMinElevation, fieldTimeWindow, cutoff, active, pc,
              minElevation, hours, stepSeconds, startTime, endTime,
              t, inPass, aos, tca, maxEl, passes, result, samples>>

\* The variables of the calculations.
calcVars == <<calcOp, calcArgs, calcValue>>

\* The variables of ISSDataManager.
managerVars == <<clock, requests, currentController, intervals, updateInterval,
                 modalOpen>>

\* The variables of withRetry.
retryVars == <<retryPc, retryN, attempts, retryCalls, retryLog, retryResult>>

\* The variables of CacheService.
cacheVars == <<cache, cacheNow, cacheOp, getKey, getValue, lastSet, clearedKeys>>

\* The variables of the layers.
layerVars == <<layerEnabled, layerOp>>

\* The variables of the useISSPosition hooks.
hookVars == <<hookPosition, hookLoading, hookError, hookPending, hookFetches,
              lastCompleted>>

\* What an action of one part of the program leaves alone.
beyondScan ==
  <<calcVars, managerVars, retryVars, cacheVars, layerVars, hookVars>>
beyondCalc ==
  <<scanVars, managerVars, retryVars, cacheVars, layerVars, hookVars>>
beyondManager ==
  <<scanVars, calcVars, retryVars, cacheVars, layerVars, hookVars>>
beyondRetry ==
  <<scanVars, calcVars, managerVars, cacheVars, layerVars, hookVars>>
beyondCache ==
  <<scanVars, calcVars, managerVars, retryVars, layerVars, hookVars>>
beyondLayers ==
  <<scanVars, calcVars, managerVars, retryVars, cacheVars, hookVars>>
beyondHooks ==
  <<scanVars, calcVars, managerVars, retryVars, cacheVars, layerVars>>

vars == <<scanVars, calcVars, managerVars, retryVars, cacheVars, layerVars,
          hookVars>>

(* ------------------------ pure helpers --------------------------------- *)

\* Number(x.toFixed(1)) on hundredths of a degree: nearest tenth.
ToFixed1(x) ==
  IF x >= 0 THEN ((x + 5) \div 10) * 10
            ELSE -((((-x) + 5) \div 10) * 10)

\* parseFloat of the value of a number field (hundredths of a degree)
ParseFloat(v) == v

\* parseInt of the value of a number field (tenths of an hour): the digits
\* before the decimal point
ParseInt(v) ==
  IF v = NaN THEN NaN
  ELSE IF v >= 0 THEN v \div 10 ELSE -((-v) \div 10)

\* x || d
OrDefault(x, d) == IF x = NaN \/ x = 0 THEN d ELSE x

\* const minElevation = parseFloat(...) || 10
MinElevationOf(e) == OrDefault(ParseFloat(e), DefaultMinElevation)

\* const timeWindow = parseInt(...) || 72
TimeWindowOf(w) == OrDefault(ParseInt(w), DefaultTimeWindow)

\* Mutant: the loop stops before the end of the window.
LoopCondStrict(tm, endT) == tm < endT

\* t <= endTime
LoopCond(tm, endT) == tm <= endT

\* t = new Date(t.getTime() + stepSeconds * 1000)
NextSampleTime(tm, step) == tm + step * MsPerSecond

\* new Date(startTime.getTime() + hours * 3600 * 1000)
EndTimeOf(start, h) == start + h * MsPerHour

\* Mutant: the threshold is the horizon, whatever minElevation is.
AboveThresholdHorizon(el, minEl) == el >= 0

\* elevation >= minElevation
AboveThreshold(el, minEl) == el >= minEl

\* Mutant: an elevation equal to the maximum moves tca as well.
ExceedsMaxOrEqual(el, mx) == el >= mx

\* elevation > maxEl
ExceedsMax(el, mx) == el > mx

\* { aos, tca, los: new Date(t), maxEl: Number(maxEl.toFixed(1)) }
MakePass(a, c, tm, mx) ==
  [aos |-> a, tca |-> c, los |-> tm, maxEl |-> ToFixed1(mx)]

\* Mutant: tca is left as it was when a pass begins.
EnterPassKeepsTca(d, tm, el) ==
  [d EXCEPT !.inPass = TRUE, !.aos = tm, !.maxEl = el]

\* if (!inPass) { inPass = true; aos = new Date(t); maxEl = elevation;
\*                tca = new Date(t); }
EnterPass(d, tm, el) ==
  [d EXCEPT !.inPass = TRUE, !.aos = tm, !.maxEl = el, !.tca = tm]

\* Mutant: the new maximum is recorded, the time it was seen at is not.
UpdateMaxKeepsTca(d, tm, el) == [d EXCEPT !.maxEl = el]

\* if (elevation > maxEl) { maxEl = elevation; tca = new Date(t); }
UpdateMax(d, tm, el) == [d EXCEPT !.maxEl = el, !.tca = tm]

\* Mutant: inPass is not reset when a pass is pushed.
ClosePassKeepsInPass(d, tm) ==
  [inPass |-> TRUE, aos |-> NULL, tca |-> NULL, maxEl |-> InitialMaxEl,
   passes |-> Append(d.passes, MakePass(d.aos, d.tca, tm, d.maxEl))]

\* Mutant: maxEl is not reset when a pass is pushed.
ClosePassKeepsMax(d, tm) ==
  [inPass |-> FALSE, aos |-> NULL, tca |-> NULL, maxEl |-> d.maxEl,
   passes |-> Append(d.passes, MakePass(d.aos, d.tca, tm, d.maxEl))]

\* Mutant: maxEl is reset before the pass is pushed.
ClosePassResetsMaxFirst(d, tm) ==
  [inPass |-> FALSE, aos |-> NULL, tca |-> NULL, maxEl |-> InitialMaxEl,
   passes |-> Append(d.passes, MakePass(d.aos, d.tca, tm, InitialMaxEl))]

\* passes.push({...}); inPass = false; aos = null; tca = null; maxEl = -90;
ClosePass(d, tm) ==
  [inPass |-> FALSE, aos |-> NULL, tca |-> NULL, maxEl |-> InitialMaxEl,
   passes |-> Append(d.passes, MakePass(d.aos, d.tca, tm, d.maxEl))]

\* Mutant: the scan starts as if a pass were in progress.
InitialDetectorInPass ==
  [inPass |-> TRUE, aos |-> NULL, tca |-> NULL, maxEl |-> InitialMaxEl,
   passes |-> <<>>]

\* The locals of a scan right after their declaration.
InitialDetector ==
  [inPass |-> FALSE, aos |-> NULL, tca |-> NULL, maxEl |-> InitialMaxEl,
   passes |-> <<>>]

\* The body of the loop for a sample that propagated: d is the record of
\* the locals before the iteration, the value is the record after it.
Detect(d, tm, el, minEl) ==
  IF AboveThreshold(el, minEl)
  THEN LET d1 == IF ~d.inPass THEN EnterPass(d, tm, el) ELSE d
       IN  IF ExceedsMax(el, d1.maxEl) THEN UpdateMax(d1, tm, el) ELSE d1
  ELSE IF d.inPass THEN ClosePass(d, tm) ELSE d

\* Mutant: a failed sample ends the pass that is in progress.
OnFailedSampleClosesPass(d, tm) == IF d.inPass THEN ClosePass(d, tm) ELSE d

\* if (!pv || !pv.position) continue;
OnFailedSample(d, tm) == d

\* Mutant: the locals are shared by all calls (those of call 1).
LocalsShared(c) ==
  [inPass |-> inPass[1], aos |-> aos[1], tca |-> tca[1], maxEl |-> maxEl[1],
   passes |-> passes[1]]

\* The locals of call c.
Locals(c) ==
  [inPass |-> inPass[c], aos |-> aos[c], tca |-> tca[c], maxEl |-> maxEl[c],
   passes |-> passes[c]]

\* Mutant: a pass in progress at the end of the window is pushed with the
\* end of the window as its los.
ReturnedFlushed(c) ==
  IF inPass[c]
  THEN Append(passes[c], MakePass(aos[c], tca[c], endTime[c], maxEl[c]))
  ELSE passes[c]

\* return passes
Returned(c) == passes[c]

\* The value of the locals after the loop has run over the samples smp,
\* started with the locals d.
RECURSIVE ScanAlone(_, _, _)
ScanAlone(smp, minEl, d) ==
  IF smp = <<>>
  THEN d
  ELSE ScanAlone(Tail(smp), minEl,
                 IF Head(smp).ok
                 THEN Detect(d, Head(smp).t, Head(smp).el, minEl)
                 ELSE OnFailedSample(d, Head(smp).t))

\* The pass list a call returns that runs on its own and samples smp.
RunAlone(smp, minEl) == ScanAlone(smp, minEl, InitialDetector).passes


(***************************************************************************)
(* The calculations of src/services/space-calculations.ts.                 *)
(*                                                                         *)
(* The numbers of the code are IEEE doubles; the model computes in fixed   *)
(* point.  Degrees are held in thousandths of a degree, radians in         *)
(* millionths of a radian, sines and cosines in ten-thousandths, lengths   *)
(* in whole kilometres.  Sines come from a table of whole degrees with     *)
(* linear interpolation, inverse functions from a search of that table.    *)
(***************************************************************************)

\* EARTH_RADIUS_KM
EarthRadiusKm == 6371

\* ISS_ORBIT_ALTITUDE_KM
IssOrbitAltitudeKm == 400

\* GM = 3.986004418e5 km3/s2, in hundreds of km3/s2
GravitationalParameter == 3986

\* Largest difference, in thousandths of a degree and in kilometres, that
\* the fixed-point arithmetic of the model makes between two ways of
\* computing one quantity.
AngleTolerance == 20
LengthTolerance == 3

\* The value 1 of a sine or cosine.
TrigOne == 10000

\* A degree, and the half and the full turn, in thousandths of a degree.
Degree == 1000
HalfTurn == 180000
FullTurn == 360000

\* Math.PI in millionths of a radian.
Pi == 3141593

\* sin of 0, 1, ..., 90 degrees.
SinTable ==
  <<
     0, 175, 349, 523, 698, 872, 1045, 1219, 1392, 1564,
     1736, 1908, 2079, 2250, 2419, 2588, 2756, 2924, 3090, 3256,
     3420, 3584, 3746, 3907, 4067, 4226, 4384, 4540, 4695, 4848,
     5000, 5150, 5299, 5446, 5592, 5736, 5878, 6018, 6157, 6293,
     6428, 6561, 6691, 6820, 6947, 7071, 7193, 7314, 7431, 7547,
     7660, 7771, 7880, 7986, 8090, 8192, 8290, 8387, 8480, 8572,
     8660, 8746, 8829, 8910, 8988, 9063, 9135, 9205, 9272, 9336,
     9397, 9455, 9511, 9563, 9613, 9659, 9703, 9744, 9781, 9816,
     9848, 9877, 9903, 9925, 9945, 9962, 9976, 9986, 9994, 9998,
     10000 >>

\* Latitudes, longitudes (thousandths of a degree), altitudes (km) and time
\* deltas (seconds) the calculations are made with.
Latitudes == {-60000, -30000, 0, 30000, 60000}
Longitudes == {-150000, -90000, 0, 30000, 90000, 180000}
Altitudes == {0, IssOrbitAltitudeKm}
TimeDeltas == {-1800, 0, 600, 1800, 5400}

\* a / b rounded to the nearest integer, for b > 0.
RoundDiv(a, b) ==
  IF a >= 0 THEN (2 * a + b) \div (2 * b) ELSE -((2 * (-a) + b) \div (2 * b))

Abs(a) == IF a >= 0 THEN a ELSE -a

\* Math.sqrt: the integer nearest to the square root of n.
RECURSIVE SqrtBetween(_, _, _)
SqrtBetween(n, lo, hi) ==
  IF hi - lo <= 1
  THEN IF n - lo * lo <= hi * hi - n THEN lo ELSE hi
  ELSE LET mid == (lo + hi) \div 2
       IN  IF mid * mid <= n THEN SqrtBetween(n, mid, hi)
                             ELSE SqrtBetween(n, lo, mid)

Sqrt(n) == SqrtBetween(n, 0, 40000)

\* degrees * DEGREES_TO_RADIANS
degreesToRadians(d) ==
  d * 17 + RoundDiv(d * 453, 1000) + RoundDiv(d * 3, 10000)

\* radians * RADIANS_TO_DEGREES
radiansToDegrees(x) ==
  RoundDiv(x * 57, 1000) + RoundDiv(RoundDiv(x, 100) * 2958, 100000)

\* sin of an angle of 0 to 90 degrees given in thousandths of a degree.
SinFirstQuadrant(d) ==
  LET i == d \div Degree
      f == d % Degree
  IN  IF i >= 90 THEN SinTable[91]
      ELSE SinTable[i + 1]
             + RoundDiv((SinTable[i + 2] - SinTable[i + 1]) * f, Degree)

\* sin of any angle given in thousandths of a degree.
SinOfDegrees(d) ==
  LET r == d % FullTurn
  IN  IF r <= 90000 THEN SinFirstQuadrant(r)
      ELSE IF r <= 180000 THEN SinFirstQuadrant(HalfTurn - r)
      ELSE IF r <= 270000 THEN -SinFirstQuadrant(r - HalfTurn)
      ELSE -SinFirstQuadrant(FullTurn - r)

\* Math.sin and Math.cos
Sin(x) == SinOfDegrees(radiansToDegrees(x))
Cos(x) == SinOfDegrees(radiansToDegrees(x) + 90000)

\* The angle of 0 to 90 degrees (in thousandths of a degree) of the
\* direction (b, a), for a >= 0, b >= 0, not both 0.
AngleOfDirection(a, b) ==
  LET G(i) == a * SinTable[91 - i] - b * SinTable[i + 1]
      i == CHOOSE j \in 0..90 : G(j) >= 0 /\ (j = 90 \/ G(j + 1) < 0)
  IN  IF i = 90 THEN 90000
      ELSE LET per == RoundDiv(G(i) - G(i + 1), Degree)
               f == IF per <= 0 THEN 0 ELSE RoundDiv(G(i), per)
           IN  i * Degree + (IF f > Degree THEN Degree ELSE f)

\* Math.atan2(y, x), in (-Pi, Pi]
Atan2(y, x) ==
  IF x = 0 /\ y = 0 THEN 0
  ELSE LET a == AngleOfDirection(Abs(y), Abs(x))
           d == IF x >= 0 THEN (IF y >= 0 THEN a ELSE -a)
                ELSE (IF y >= 0 THEN HalfTurn - a ELSE a - HalfTurn)
       IN  degreesToRadians(d)

\* Math.acos(c) for a cosine c, in [0, Pi]
Acos(c) ==
  Atan2(Sqrt(TrigOne * TrigOne - c * c), c)

\* sphericalToCartesian(latitude, longitude, radius)
sphericalToCartesian(latitude, longitude, radius) ==
  LET phi == degreesToRadians(90000 - latitude)
      theta == degreesToRadians(longitude + HalfTurn)
      x == -RoundDiv(RoundDiv(radius * Sin(phi), 1000) * Cos(theta), 100000)
      y == RoundDiv(radius * Cos(phi), TrigOne)
      z == RoundDiv(RoundDiv(radius * Sin(phi), 1000) * Sin(theta), 100000)
  IN  [x |-> x, y |-> y, z |-> z]

\* vector.length()
Length(v) == Sqrt(v.x * v.x + v.y * v.y + v.z * v.z)

\* point1.distanceTo(point2)
DistanceTo(v, w) ==
  Length([x |-> v.x - w.x, y |-> v.y - w.y, z |-> v.z - w.z])

\* cartesianToSpherical(vector)
cartesianToSpherical(vector) ==
  LET radius == Length(vector)
      latitude ==
        90000 - radiansToDegrees(Acos(RoundDiv(vector.y * TrigOne, radius)))
      longitude == radiansToDegrees(Atan2(vector.z, -vector.x)) - HalfTurn
  IN  [latitude |-> latitude, longitude |-> longitude, radius |-> radius]

\* Mutant: the central angle is atan2(...) and not twice it.
calculateSurfaceDistanceHalved(lat1, lon1, lat2, lon2) ==
  LET dLat == degreesToRadians(lat2 - lat1)
      dLon == degreesToRadians(lon2 - lon1)
      sLat == Sin(RoundDiv(dLat, 2))
      sLon == Sin(RoundDiv(dLon, 2))
      a == sLat * sLat
           + RoundDiv(Cos(degreesToRadians(lat1)) * Cos(degreesToRadians(lat2)),
                      TrigOne) * RoundDiv(sLon * sLon, TrigOne)
      c == Atan2(Sqrt(a), Sqrt(TrigOne * TrigOne - a))
  IN  RoundDiv(EarthRadiusKm * RoundDiv(c, 100), 10000)

\* calculateSurfaceDistance(lat1, lon1, lat2, lon2): a is held in
\* hundred-millionths, its square roots in ten-thousandths.
calculateSurfaceDistance(lat1, lon1, lat2, lon2) ==
  LET dLat == degreesToRadians(lat2 - lat1)
      dLon == degreesToRadians(lon2 - lon1)
      sLat == Sin(RoundDiv(dLat, 2))
      sLon == Sin(RoundDiv(dLon, 2))
      a == sLat * sLat
           + RoundDiv(Cos(degreesToRadians(lat1)) * Cos(degreesToRadians(lat2)),
                      TrigOne) * RoundDiv(sLon * sLon, TrigOne)
      c == 2 * Atan2(Sqrt(a), Sqrt(TrigOne * TrigOne - a))
  IN  RoundDiv(EarthRadiusKm * RoundDiv(c, 100), 10000)

\* calculate3DDistance(lat1, lon1, alt1, lat2, lon2, alt2)
calculate3DDistance(lat1, lon1, alt1, lat2, lon2, alt2) ==
  LET point1 == sphericalToCartesian(lat1, lon1, EarthRadiusKm + alt1)
      point2 == sphericalToCartesian(lat2, lon2, EarthRadiusKm + alt2)
  IN  DistanceTo(point1, point2)

\* toCartesian(lat, lon, radius) of calculations.ts
toCartesian(lat, lon, radius) ==
  LET phi == degreesToRadians(90000 - lat)
      theta == degreesToRadians(lon + HalfTurn)
      x == -RoundDiv(RoundDiv(radius * Sin(phi), 1000) * Cos(theta), 100000)
      y == RoundDiv(radius * Cos(phi), TrigOne)
      z == RoundDiv(RoundDiv(radius * Sin(phi), 1000) * Sin(theta), 100000)
  IN  [x |-> x, y |-> y, z |-> z]

\* calculateDistance(lat1, lon1, alt1, lat2, lon2, alt2) of calculations.ts
calculateDistance(lat1, lon1, alt1, lat2, lon2, alt2) ==
  LET point1 == toCartesian(lat1, lon1, EarthRadiusKm + alt1)
      point2 == toCartesian(lat2, lon2, EarthRadiusKm + alt2)
  IN  DistanceTo(point1, point2)

\* calculateOrbitalPeriod(altitude), in seconds
calculateOrbitalPeriod(altitude) ==
  LET a == EarthRadiusKm + altitude
      q == RoundDiv(RoundDiv(a * a, 1000) * a, GravitationalParameter)
      root == Sqrt(q * 1000)
  IN  RoundDiv(2 * RoundDiv(Pi, 1000) * root, 10000)

\* calculateAngularVelocity(altitude), in millionths of a radian per second
calculateAngularVelocity(altitude) ==
  RoundDiv(2 * Pi, calculateOrbitalPeriod(altitude))

\* a % b of JavaScript: the remainder has the sign of a.
JsRem(a, b) == IF a >= 0 THEN a % b ELSE -((-a) % b)

\* calculatePositionAfterTime(currentLat, currentLon, currentAlt, timeDelta)
calculatePositionAfterTime(currentLat, currentLon, currentAlt, timeDelta) ==
  LET angularVelocity == calculateAngularVelocity(currentAlt)
      longitudeDelta == radiansToDegrees(angularVelocity * timeDelta)
  IN  [latitude |-> currentLat,
       longitude |-> JsRem(currentLon + longitudeDelta, FullTurn),
       altitude |-> currentAlt]

\* A coordinate that is not there (undefined in JavaScript).
Undefined == -888888

\* The values JavaScript's ! and ?: take for false.
Falsy(x) == x \in {NULL, Undefined, NaN, 0}

\* The latitudes, longitudes and altitudes a UserLocation can hold.
UserLatitudes == {Undefined, 0, 30000}
UserLongitudes == {Undefined, 0, -90000}
UserAltitudes == {Undefined, 0}

\* calculateISSDistance(issPosition, userLocation)
calculateISSDistance(issPosition, userLocation) ==
  IF Falsy(userLocation.latitude) \/ Falsy(userLocation.longitude)
    THEN NULL
    ELSE calculate3DDistance(
           issPosition.latitude, issPosition.longitude, issPosition.altitude,
           userLocation.latitude, userLocation.longitude,
           IF Falsy(userLocation.altitude) THEN 0 ELSE userLocation.altitude)

\* useISSDistance(issPosition, userLocation): the distance the effect sets
\* and the formattedDistance of the next render.
useISSDistance(issPosition, userLocation) ==
  LET distance ==
        IF Falsy(userLocation.latitude) \/ Falsy(userLocation.longitude)
          THEN NULL
          ELSE calculateISSDistance(issPosition, userLocation)
  IN  [distance |-> distance,
       formattedDistance |-> IF Falsy(distance) THEN "Unknown" ELSE "formatted"]

(* ------------------------- ISSDataManager ------------------------------ *)

\* ISS_CONFIG.REFRESH_INTERVAL and ISS_CONFIG.NETWORK_TIMEOUT, milliseconds
RefreshInterval == 3000
NetworkTimeout == 6000

\* The fields of the manager, as one record.
Manager ==
  [requests |-> requests, currentController |-> currentController,
   intervals |-> intervals, updateInterval |-> updateInterval]

\* A request is in flight: started, neither completed nor aborted.
InFlight(r) == r.status = "inflight"

\* controller.abort() of request k by `who`: the fetch of a request in
\* flight is aborted and its promise is rejected; the rejection reaches the
\* catch block of its fetchISSPosition call when the running handler ends.
Abort(reqs, k, who) ==
  IF InFlight(reqs[k])
    THEN [reqs EXCEPT ![k].status = "aborted", ![k].rejecting = TRUE,
                      ![k].abortedBy = who]
    ELSE reqs

\* Who aborted a request: the next fetchISSPosition, stopDataUpdates, or
\* (a number > 0) the timeout of the request of that number.
ByNextFetch == -2
ByStop == -3

\* fetchISSPosition(), up to its await: the previous controller is aborted,
\* a new controller and a new timeout are made and the fetch is started.
fetchISSPosition(m, tm, open) ==
  LET aborted == IF m.currentController # NULL
                   THEN Abort(m.requests, m.currentController, ByNextFetch)
                   ELSE m.requests
      request == [status |-> "inflight", started |-> tm,
                  timeoutDue |-> tm + NetworkTimeout, rejecting |-> FALSE,
                  abortedBy |-> 0, duringModal |-> open]
  IN  [m EXCEPT !.requests = Append(aborted, request),
                !.currentController = Len(aborted) + 1]

\* updateData(), up to its await
updateData(m, tm, open) == fetchISSPosition(m, tm, open)

\* startDataUpdates()
startDataUpdates(m, tm, open) ==
  LET m1 == updateData(m, tm, open)
  IN  [m1 EXCEPT !.intervals = Append(m1.intervals, tm + RefreshInterval),
                 !.updateInterval = Len(m1.intervals) + 1]

\* stopDataUpdates()
stopDataUpdates(m) ==
  LET m1 == IF m.updateInterval # NULL
              THEN [m EXCEPT !.intervals[m.updateInterval] = NULL,
                             !.updateInterval = NULL]
              ELSE m
  IN  IF m1.currentController # NULL
        THEN [m1 EXCEPT !.requests =
                          Abort(m1.requests, m1.currentController, ByStop),
                        !.currentController = NULL]
        ELSE m1

\* The state after new ISSDataManager(): the constructor has called
\* startDataUpdates().
Constructed ==
  startDataUpdates([requests |-> <<>>, currentController |-> NULL,
                    intervals |-> <<>>, updateInterval |-> NULL], 0, FALSE)

\* A rejected fetch whose catch block has not run yet.
Rejecting == {k \in DOMAIN requests : requests[k].rejecting}

\* The timers and timeouts that are due.
DueIntervals == {i \in DOMAIN intervals : intervals[i] = clock}
DueTimeouts == {k \in DOMAIN requests : requests[k].timeoutDue = clock}

\* The timers that are running.
ActiveIntervals == {i \in DOMAIN intervals : intervals[i] # NULL}

(* ----------------------------- withRetry ------------------------------- *)

\* API_CONFIG.RETRY_ATTEMPTS
RetryAttempts == 3

\* The attempts withRetry is called with (every call in the file takes the
\* default), the values operation resolves with and the errors it throws.
AttemptChoices == 1..MaxAttempts
OperationValues == {"v1", "v2"}
OperationErrors == {"e1", "e2"}

\* Mutant: the last attempt is retried too.
ShouldRetryOnLast(n) == n > 0

\* if (attempts > 1)
ShouldRetry(n) == n > 1

(* ---------------------------- CacheService ----------------------------- *)

\* The keys, data and ttl (milliseconds) of the calls of set.
CacheKeys == {"a", "b"}
CacheData == {101, 102}
TtlChoices == {0, 2}

\* Mutant: an entry expires when its ttl has elapsed, not after it.
ExpiredAtTtl(entry, tm) == tm - entry.timestamp >= entry.ttl

\* Date.now() - entry.timestamp > entry.ttl
Expired(entry, tm) == tm - entry.timestamp > entry.ttl

\* this.cache.delete(key)
CacheDelete(c, keys) == [k \in (DOMAIN c) \ keys |-> c[k]]

\* this.cache.set(key, entry)
CacheSet(c, key, entry) ==
  [k \in (DOMAIN c) \cup {key} |-> IF k = key THEN entry ELSE c[k]]

\* CacheService.get(key): the value returned and the cache after it.
CacheGet(c, key, tm) ==
  IF key \notin DOMAIN c
    THEN [value |-> NULL, cache |-> c]
    ELSE IF Expired(c[key], tm)
           THEN [value |-> NULL, cache |-> CacheDelete(c, {key})]
           ELSE [value |-> c[key].data, cache |-> c]

\* CacheService.clearExpired(): the cache after it.
CacheClearExpired(c, tm) ==
  CacheDelete(c, {k \in DOMAIN c : Expired(c[k], tm)})

(* ------------------------------- layers -------------------------------- *)

\* The base layers of addBaseMapLayers and the overlay layers of
\* addOverlayLayers, in the order of worldWindow.layers.
BaseLayers ==
  <<"Natural Earth", "Landsat Imagery", "Bing Aerial",
    "Bing Aerial with Labels", "OpenStreetMap">>
OverlayLayers == <<"Road Networks", "OpenStreetMap Overlay">>

\* Every layer, and a name that no layer has.
Range(seq) == {seq[i] : i \in DOMAIN seq}
LayerNames == Range(BaseLayers) \cup Range(OverlayLayers)
UnknownLayer == "Unknown Layer"

\* layer.category
Category(layer) == IF layer \in Range(BaseLayers) THEN "base" ELSE "overlay"

\* getLayersByCategory(category)
getLayersByCategory(category) ==
  IF category = "base" THEN BaseLayers ELSE OverlayLayers

\* The configurations given to importLayerConfig: up to two entries
\* {name, enabled}.
LayerConfigs ==
  UNION {[names -> BOOLEAN] :
           names \in {n \in SUBSET (LayerNames \cup {UnknownLayer}) :
                        Cardinality(n) <= 2}}

\* SpaceGlobe.toggleLayer(layer)
toggleLayer(en, layer) ==
  LET others == IF Category(layer) = "base"
                  THEN [l \in LayerNames |->
                          IF Category(l) = "base" /\ l # layer
                            THEN FALSE ELSE en[l]]
                  ELSE en
  IN  [others EXCEPT ![layer] = ~others[layer]]

\* LayerController.resetToDefaults()
resetToDefaults(en) ==
  [l \in LayerNames |->
     IF Category(l) = "base"
       THEN l = getLayersByCategory("base")[1]
       ELSE FALSE]

\* LayerController.importLayerConfig(configString)
importLayerConfig(en, config) ==
  [l \in LayerNames |-> IF l \in DOMAIN config THEN config[l] ELSE en[l]]

\* LayerController.toggleCategory(category, enabled)
toggleCategory(en, category, enabled) ==
  [l \in LayerNames |->
     IF l \in Range(getLayersByCategory(category)) THEN enabled ELSE en[l]]

\* LayerController.showOnlyLayer(targetLayer)
showOnlyLayer(en, targetLayer) ==
  [l \in LayerNames |->
     IF l \in Range(getLayersByCategory(Category(targetLayer)))
       THEN l = targetLayer
       ELSE en[l]]

(* ---------------------------- useISSPosition --------------------------- *)

\* The two hooks: hooks/useISSPosition.ts and hooks/use-space-data.ts.
Hooks == {"useISSPosition", "use-space-data"}

\* 'Failed to fetch ISS position': the error of useISSPosition.ts, whatever
\* was thrown.  (use-space-data.ts reports the message of what was thrown,
\* here the number of the fetch that threw it.)
FailedToFetch == 0

\* The error a hook has before updatePosition awaits its fetch:
\* use-space-data.ts calls setError(null) first, useISSPosition.ts does not.
ErrorAtStart(h, error) == IF h = "use-space-data" THEN NULL ELSE error

\* The error a hook sets in its catch block for fetch k.
ErrorOf(h, k) == IF h = "use-space-data" THEN k ELSE FailedToFetch

(* ----------------------------- Init ------------------------------------ *)

InitCalls ==
  /\ pc = [c \in CallIds |-> "idle"]
  /\ minElevation = [c \in CallIds |-> 0]
  /\ hours = [c \in CallIds |-> 0]
  /\ stepSeconds = [c \in CallIds |-> 0]
  /\ startTime = [c \in CallIds |-> NULL]
  /\ endTime = [c \in CallIds |-> NULL]
  /\ t = [c \in CallIds |-> NULL]
  /\ inPass = [c \in CallIds |-> FALSE]
  /\ aos = [c \in CallIds |-> NULL]
  /\ tca = [c \in CallIds |-> NULL]
  /\ maxEl = [c \in CallIds |-> InitialMaxEl]
  /\ passes = [c \in CallIds |-> <<>>]
  /\ result = [c \in CallIds |-> <<>>]
  /\ samples = [c \in CallIds |-> <<>>]
  /\ fieldMinElevation = [c \in CallIds |-> NaN]
  /\ fieldTimeWindow = [c \in CallIds |-> NaN]
  /\ cutoff = [c \in CallIds |-> FALSE]

\* No calculation has been made.
InitCalc ==
  /\ calcOp = "none"
  /\ calcArgs = <<>>
  /\ calcValue = <<>>

\* One search.
\* new ISSDataManager() has run.
InitManager ==
  /\ clock = 0
  /\ requests = Constructed.requests
  /\ currentController = Constructed.currentController
  /\ intervals = Constructed.intervals
  /\ updateInterval = Constructed.updateInterval
  /\ modalOpen = FALSE

\* withRetry has not been called.
InitRetry ==
  /\ retryPc = "idle"
  /\ retryN = 0
  /\ attempts = 0
  /\ retryCalls = 0
  /\ retryLog = <<>>
  /\ retryResult = <<>>

\* CacheService.cache = new Map()
InitCache ==
  /\ cache = <<>>
  /\ cacheNow = 0
  /\ cacheOp = "none"
  /\ getKey = ""
  /\ getValue = NULL
  /\ lastSet = <<>>
  /\ clearedKeys = {}

\* The layers as addBaseMapLayers and addOverlayLayers add them: the first
\* base layer is enabled, every other base and overlay layer is not.
InitLayers ==
  /\ layerEnabled = [l \in LayerNames |-> l = BaseLayers[1]]
  /\ layerOp = <<"none">>

\* The hooks at their first render: useState(null), useState(true),
\* useState(null); the effect has not run yet.
InitHooks ==
  /\ hookPosition = [h \in Hooks |-> NULL]
  /\ hookLoading = [h \in Hooks |-> TRUE]
  /\ hookError = [h \in Hooks |-> NULL]
  /\ hookPending = [h \in Hooks |-> {}]
  /\ hookFetches = [h \in Hooks |-> 0]
  /\ lastCompleted = [h \in Hooks |-> [fetch |-> NULL, ok |-> FALSE]]

\* The parts of the program that a specification leaves at rest.
InitRest ==
  InitManager /\ InitRetry /\ InitCache /\ InitLayers /\ InitHooks

Init == active = {1} /\ InitCalls /\ InitCalc /\ InitRest

\* Two searches at the same time.
InitConcurrent == active = {1, 2} /\ InitCalls /\ InitCalc /\ InitRest

\* No search: the calculations of space-calculations.ts on their own.
InitCalculations == active = {} /\ InitCalls /\ InitCalc /\ InitRest

(* ---------------------------- actions ---------------------------------- *)

\* findPasses reads the two fields, and calculateISSPasses(lat, lon,
\* minElevation, timeWindow) is called and waits for getTLEData().
Invoke(c, elevations, windows) ==
  /\ c \in active
  /\ pc[c] = "idle"
  /\ \E e \in elevations, w \in windows, s \in StepChoices :
       /\ fieldMinElevation' = [fieldMinElevation EXCEPT ![c] = e]
       /\ fieldTimeWindow' = [fieldTimeWindow EXCEPT ![c] = w]
       /\ minElevation' = [minElevation EXCEPT
                             ![c] = MinElevationOf(e)]
       /\ hours' = [hours EXCEPT ![c] = TimeWindowOf(w)]
       /\ stepSeconds' = [stepSeconds EXCEPT ![c] = s]
  /\ pc' = [pc EXCEPT ![c] = "tle"]
  /\ UNCHANGED beyondScan
  /\ UNCHANGED <<cutoff, active, startTime, endTime, t, inPass, aos, tca, maxEl,
                 passes, result, samples>>

Call(c) == Invoke(c, MinElevationFields, TimeWindowFields)

CallConcurrent(c) ==
  Invoke(c, MinElevationChoices, {10 * h : h \in ConcurrentHoursChoices})

\* getTLEData() rejects (fetchWithTimeout throws): the call rejects.
TleFails(c) ==
  /\ c \in active
  /\ pc[c] = "tle"
  /\ pc' = [pc EXCEPT ![c] = "failed"]
  /\ UNCHANGED beyondScan
  /\ UNCHANGED <<fieldMinElevation, fieldTimeWindow, cutoff, active, minElevation, hours, stepSeconds, startTime, endTime,
                 t, inPass, aos, tca, maxEl, passes, result, samples>>

\* getTLEData() resolves: the locals are declared and the loop is entered.
\* (The model follows the scan for windows of up to MaxHours.)
TleArrives(c) ==
  /\ c \in active
  /\ pc[c] = "tle"
  /\ hours[c] <= MaxHours
  /\ \E now \in StartTimes :
       /\ startTime' = [startTime EXCEPT ![c] = now]
       /\ endTime' = [endTime EXCEPT ![c] = EndTimeOf(now, hours[c])]
       /\ t' = [t EXCEPT ![c] = now]
  /\ inPass' = [inPass EXCEPT ![c] = InitialDetector.inPass]
  /\ aos' = [aos EXCEPT ![c] = InitialDetector.aos]
  /\ tca' = [tca EXCEPT ![c] = InitialDetector.tca]
  /\ maxEl' = [maxEl EXCEPT ![c] = InitialDetector.maxEl]
  /\ passes' = [passes EXCEPT ![c] = InitialDetector.passes]
  /\ pc' = [pc EXCEPT ![c] = "loop"]
  /\ UNCHANGED beyondScan
  /\ UNCHANGED <<fieldMinElevation, fieldTimeWindow, cutoff, active, minElevation, hours, stepSeconds, result, samples>>

\* The locals of call c become d, and t advances by one step.
Advance(c, d) ==
  /\ inPass' = [inPass EXCEPT ![c] = d.inPass]
  /\ aos' = [aos EXCEPT ![c] = d.aos]
  /\ tca' = [tca EXCEPT ![c] = d.tca]
  /\ maxEl' = [maxEl EXCEPT ![c] = d.maxEl]
  /\ passes' = [passes EXCEPT ![c] = d.passes]
  /\ t' = [t EXCEPT ![c] = NextSampleTime(t[c], stepSeconds[c])]

\* One iteration of the loop whose sample propagated, with elevation el.
ScanSample(c) ==
  /\ c \in active
  /\ pc[c] = "loop"
  /\ LoopCond(t[c], endTime[c])
  /\ \E el \in ElevValues :
       /\ samples' = [samples EXCEPT
                        ![c] = Append(@, [t |-> t[c], ok |-> TRUE, el |-> el])]
       /\ Advance(c, Detect(Locals(c), t[c], el, minElevation[c]))
  /\ UNCHANGED beyondScan
  /\ UNCHANGED <<fieldMinElevation, fieldTimeWindow, cutoff, active, pc, minElevation, hours, stepSeconds, startTime,
                 endTime, result>>

\* One iteration of the loop whose propagation failed (no pv.position).
ScanFailedSample(c) ==
  /\ c \in active
  /\ pc[c] = "loop"
  /\ LoopCond(t[c], endTime[c])
  /\ samples' = [samples EXCEPT
                   ![c] = Append(@, [t |-> t[c], ok |-> FALSE, el |-> 0])]
  /\ Advance(c, OnFailedSample(Locals(c), t[c]))
  /\ UNCHANGED beyondScan
  /\ UNCHANGED <<fieldMinElevation, fieldTimeWindow, cutoff, active, pc, minElevation, hours, stepSeconds, startTime,
                 endTime, result>>

\* The caller raises its cutoff (a deadline passes, or it sets its
\* cancellation flag) while the scan is in its loop.  calculateISSPasses has
\* no parameter for a cutoff and its loop reads none.
RaiseCutoff(c) ==
  /\ c \in active
  /\ pc[c] = "loop"
  /\ ~cutoff[c]
  /\ cutoff' = [cutoff EXCEPT ![c] = TRUE]
  /\ UNCHANGED beyondScan
  /\ UNCHANGED <<fieldMinElevation, fieldTimeWindow, active, pc, minElevation,
                 hours, stepSeconds, startTime, endTime, t, inPass, aos, tca,
                 maxEl, passes, result, samples>>

\* The loop condition fails: return passes.
Return(c) ==
  /\ c \in active
  /\ pc[c] = "loop"
  /\ ~LoopCond(t[c], endTime[c])
  /\ result' = [result EXCEPT ![c] = Returned(c)]
  /\ pc' = [pc EXCEPT ![c] = "done"]
  /\ UNCHANGED beyondScan
  /\ UNCHANGED <<fieldMinElevation, fieldTimeWindow, cutoff, active, minElevation, hours, stepSeconds, startTime, endTime,
                 t, inPass, aos, tca, maxEl, passes, samples>>

Next ==
  \E c \in CallIds :
    \/ Call(c)
    \/ TleFails(c)
    \/ TleArrives(c)
    \/ ScanSample(c)
    \/ ScanFailedSample(c)
    \/ RaiseCutoff(c)
    \/ Return(c)

Spec == Init /\ [][Next]_vars

\* A step of the loop of call c.  The loop is synchronous code: once it is
\* entered it runs to its end without giving up the thread.
LoopStep(c) == ScanSample(c) \/ ScanFailedSample(c) \/ Return(c)

SpecFair == Spec /\ \A c \in CallIds : WF_vars(LoopStep(c))

NextConcurrent ==
  \E c \in CallIds :
    \/ CallConcurrent(c)
    \/ TleFails(c)
    \/ TleArrives(c)
    \/ ScanSample(c)
    \/ ScanFailedSample(c)
    \/ Return(c)

SpecConcurrent == InitConcurrent /\ [][NextConcurrent]_vars

(* ------------------- actions of the calculations ----------------------- *)

\* A point is converted to Cartesian coordinates and back.
RoundTrip ==
  /\ calcOp = "none"
  /\ \E lat \in Latitudes, lon \in Longitudes, alt \in Altitudes :
       /\ calcArgs' = [latitude |-> lat, longitude |-> lon,
                       radius |-> EarthRadiusKm + alt]
       /\ calcValue' = cartesianToSpherical(
                         sphericalToCartesian(lat, lon, EarthRadiusKm + alt))
  /\ calcOp' = "roundTrip"
  /\ UNCHANGED beyondCalc

\* calculatePositionAfterTime is applied to a position.
PositionAfterTime ==
  /\ calcOp = "none"
  /\ \E lat \in Latitudes, lon \in Longitudes, alt \in Altitudes,
        dt \in TimeDeltas :
       /\ calcArgs' = [latitude |-> lat, longitude |-> lon, altitude |-> alt,
                       timeDelta |-> dt]
       /\ calcValue' = calculatePositionAfterTime(lat, lon, alt, dt)
  /\ calcOp' = "positionAfterTime"
  /\ UNCHANGED beyondCalc

\* calculateSurfaceDistance, calculate3DDistance and calculateDistance are
\* applied to the same two points.
MeasureDistances ==
  /\ calcOp = "none"
  /\ \E lat1 \in Latitudes, lon1 \in Longitudes, alt1 \in Altitudes,
        lat2 \in Latitudes, lon2 \in Longitudes, alt2 \in Altitudes :
       /\ calcArgs' = [lat1 |-> lat1, lon1 |-> lon1, alt1 |-> alt1,
                       lat2 |-> lat2, lon2 |-> lon2, alt2 |-> alt2]
       /\ calcValue' =
            [surface |-> calculateSurfaceDistance(lat1, lon1, lat2, lon2),
             straight |-> calculate3DDistance(lat1, lon1, alt1,
                                              lat2, lon2, alt2),
             distance |-> calculateDistance(lat1, lon1, alt1,
                                            lat2, lon2, alt2)]
  /\ calcOp' = "distances"
  /\ UNCHANGED beyondCalc

\* useISSDistance renders for an ISS position and a user location.
ISSDistance ==
  /\ calcOp = "none"
  /\ \E lat \in Latitudes, lon \in Longitudes,
        ulat \in UserLatitudes, ulon \in UserLongitudes,
        ualt \in UserAltitudes :
       LET issPosition == [latitude |-> lat, longitude |-> lon,
                           altitude |-> IssOrbitAltitudeKm]
           userLocation == [latitude |-> ulat, longitude |-> ulon,
                            altitude |-> ualt]
       IN  /\ calcArgs' = [issPosition |-> issPosition,
                           userLocation |-> userLocation]
           /\ calcValue' =
                [returned |-> calculateISSDistance(issPosition, userLocation),
                 hook |-> useISSDistance(issPosition, userLocation)]
  /\ calcOp' = "issDistance"
  /\ UNCHANGED beyondCalc

NextCalculations ==
  RoundTrip \/ PositionAfterTime \/ MeasureDistances \/ ISSDistance

SpecCalculations == InitCalculations /\ [][NextCalculations]_vars

(* ------------------- actions of ISSDataManager -------------------------- *)

SetManager(m) ==
  /\ requests' = m.requests
  /\ currentController' = m.currentController
  /\ intervals' = m.intervals
  /\ updateInterval' = m.updateInterval

\* A setInterval timer fires: updateData() runs up to its await.
TimerTick(i) ==
  /\ Rejecting = {}
  /\ i \in DueIntervals
  /\ Len(requests) < MaxRequests
  /\ SetManager([updateData(Manager, clock, modalOpen)
                   EXCEPT !.intervals[i] = clock + RefreshInterval])
  /\ UNCHANGED <<clock, modalOpen>>
  /\ UNCHANGED beyondManager

\* The catch block of fetchISSPosition runs for an aborted fetch.
AbortRejection(k) ==
  /\ k \in Rejecting
  /\ requests' = [requests EXCEPT ![k].rejecting = FALSE,
                                  ![k].timeoutDue = NULL]
  /\ currentController' = NULL
  /\ UNCHANGED <<clock, intervals, updateInterval, modalOpen>>
  /\ UNCHANGED beyondManager

\* The fetch of request k settles (a response, or a network error):
\* the timeout is clearedKeys and the controller forgotten.
Response(k) ==
  /\ Rejecting = {}
  /\ k \in DOMAIN requests
  /\ InFlight(requests[k])
  /\ requests' = [requests EXCEPT ![k].status = "completed",
                                  ![k].timeoutDue = NULL]
  /\ currentController' = NULL
  /\ UNCHANGED <<clock, intervals, updateInterval, modalOpen>>
  /\ UNCHANGED beyondManager

\* The setTimeout callback of request k runs, NETWORK_TIMEOUT after its
\* start: it aborts the controller the manager holds then.
Timeout(k) ==
  /\ Rejecting = {}
  /\ k \in DueTimeouts
  /\ requests' =
       LET fired == [requests EXCEPT ![k].timeoutDue = NULL]
       IN  IF currentController # NULL
             THEN Abort(fired, currentController, k)
             ELSE fired
  /\ UNCHANGED <<clock, currentController, intervals, updateInterval, modalOpen>>
  /\ UNCHANGED beyondManager

\* 'prediction-modal-opened'
ModalOpened ==
  /\ Rejecting = {}
  /\ SetManager(stopDataUpdates(Manager))
  /\ modalOpen' = TRUE
  /\ UNCHANGED clock
  /\ UNCHANGED beyondManager

\* 'prediction-modal-closed'
ModalClosed ==
  /\ Rejecting = {}
  /\ Len(requests) < MaxRequests
  /\ Len(intervals) < MaxIntervals
  /\ SetManager(startDataUpdates(Manager, clock, FALSE))
  /\ modalOpen' = FALSE
  /\ UNCHANGED clock
  /\ UNCHANGED beyondManager

\* cleanup()
Cleanup ==
  /\ Rejecting = {}
  /\ SetManager(stopDataUpdates(Manager))
  /\ UNCHANGED <<clock, modalOpen>>
  /\ UNCHANGED beyondManager

\* Time passes, once every callback that is due has run.
Tock ==
  /\ Rejecting = {}
  /\ DueIntervals = {}
  /\ DueTimeouts = {}
  /\ clock < MaxTicks * RefreshInterval
  /\ clock' = clock + RefreshInterval
  /\ UNCHANGED <<requests, currentController, intervals, updateInterval,
                 modalOpen>>
  /\ UNCHANGED beyondManager

NextManager ==
  \/ \E i \in DOMAIN intervals : TimerTick(i)
  \/ \E k \in DOMAIN requests : AbortRejection(k)
  \/ \E k \in DOMAIN requests : Response(k)
  \/ \E k \in DOMAIN requests : Timeout(k)
  \/ ModalOpened
  \/ ModalClosed
  \/ Cleanup
  \/ Tock

SpecManager == InitCalculations /\ [][NextManager]_vars

(* ----------------------- actions of withRetry -------------------------- *)

\* withRetry(operation, n) is called: operation is invoked.
RetryCall ==
  /\ retryPc = "idle"
  /\ \E n \in AttemptChoices :
       /\ retryN' = n
       /\ attempts' = n
  /\ retryCalls' = 1
  /\ retryPc' = "operation"
  /\ UNCHANGED <<retryLog, retryResult>>
  /\ UNCHANGED beyondRetry

\* operation() resolves: return await operation()
OperationResolves ==
  /\ retryPc = "operation"
  /\ \E v \in OperationValues :
       /\ retryLog' = Append(retryLog, [ok |-> TRUE, value |-> v])
       /\ retryResult' = <<"resolved", v>>
  /\ retryPc' = "settled"
  /\ UNCHANGED <<retryN, attempts, retryCalls>>
  /\ UNCHANGED beyondRetry

\* operation() rejects: the catch block waits for a retry or throws.
OperationRejects ==
  /\ retryPc = "operation"
  /\ \E e \in OperationErrors :
       /\ retryLog' = Append(retryLog, [ok |-> FALSE, value |-> e])
       /\ IF ShouldRetry(attempts)
            THEN retryPc' = "delay" /\ UNCHANGED retryResult
            ELSE retryPc' = "settled" /\ retryResult' = <<"rejected", e>>
  /\ UNCHANGED <<retryN, attempts, retryCalls>>
  /\ UNCHANGED beyondRetry

\* RETRY_DELAY has passed: withRetry(operation, attempts - 1) invokes
\* operation again.
RetryAfterDelay ==
  /\ retryPc = "delay"
  /\ attempts' = attempts - 1
  /\ retryCalls' = retryCalls + 1
  /\ retryPc' = "operation"
  /\ UNCHANGED <<retryN, retryLog, retryResult>>
  /\ UNCHANGED beyondRetry

NextRetry ==
  RetryCall \/ OperationResolves \/ OperationRejects \/ RetryAfterDelay

SpecRetry == InitCalculations /\ [][NextRetry]_vars

(* ---------------------- actions of CacheService ------------------------ *)

\* CacheService.set(key, data, ttl)
Set ==
  /\ \E key \in CacheKeys, data \in CacheData, ttl \in TtlChoices :
       LET entry == [data |-> data, timestamp |-> cacheNow, ttl |-> ttl]
       IN  /\ cache' = CacheSet(cache, key, entry)
           /\ lastSet' = CacheSet(lastSet, key, entry)
           /\ clearedKeys' = clearedKeys \ {key}
  /\ cacheOp' = "set"
  /\ UNCHANGED <<cacheNow, getKey, getValue>>
  /\ UNCHANGED beyondCache

\* CacheService.get(key)
Get ==
  /\ \E key \in CacheKeys :
       /\ getKey' = key
       /\ getValue' = CacheGet(cache, key, cacheNow).value
       /\ cache' = CacheGet(cache, key, cacheNow).cache
  /\ cacheOp' = "get"
  /\ UNCHANGED <<cacheNow, lastSet, clearedKeys>>
  /\ UNCHANGED beyondCache

\* CacheService.clear()
Clear ==
  /\ cache' = <<>>
  /\ clearedKeys' = CacheKeys
  /\ cacheOp' = "clear"
  /\ UNCHANGED <<cacheNow, getKey, getValue, lastSet>>
  /\ UNCHANGED beyondCache

\* CacheService.clearExpired()
ClearExpired ==
  /\ cache' = CacheClearExpired(cache, cacheNow)
  /\ cacheOp' = "clearExpired"
  /\ UNCHANGED <<cacheNow, getKey, getValue, lastSet, clearedKeys>>
  /\ UNCHANGED beyondCache

\* A millisecond passes.
CacheTick ==
  /\ cacheNow < MaxCacheTime
  /\ cacheNow' = cacheNow + 1
  /\ cacheOp' = "tick"
  /\ UNCHANGED <<cache, getKey, getValue, lastSet, clearedKeys>>
  /\ UNCHANGED beyondCache

NextCache == Set \/ Get \/ Clear \/ ClearExpired \/ CacheTick

SpecCache == InitCalculations /\ [][NextCache]_vars

(* ------------------------ actions of the layers ------------------------ *)

ToggleLayer ==
  /\ \E layer \in LayerNames :
       /\ layerEnabled' = toggleLayer(layerEnabled, layer)
       /\ layerOp' = <<"toggleLayer", layer>>
  /\ UNCHANGED beyondLayers

ShowOnlyLayer ==
  /\ \E layer \in LayerNames :
       /\ layerEnabled' = showOnlyLayer(layerEnabled, layer)
       /\ layerOp' = <<"showOnlyLayer", layer>>
  /\ UNCHANGED beyondLayers

ResetToDefaults ==
  /\ layerEnabled' = resetToDefaults(layerEnabled)
  /\ layerOp' = <<"resetToDefaults">>
  /\ UNCHANGED beyondLayers

ToggleCategory ==
  /\ \E category \in {"base", "overlay"}, enabled \in BOOLEAN :
       /\ layerEnabled' = toggleCategory(layerEnabled, category, enabled)
       /\ layerOp' = <<"toggleCategory", category>>
  /\ UNCHANGED beyondLayers

ImportLayerConfig ==
  /\ \E config \in LayerConfigs :
       /\ layerEnabled' = importLayerConfig(layerEnabled, config)
       /\ layerOp' = <<"importLayerConfig">>
  /\ UNCHANGED beyondLayers

NextLayers ==
  \/ ToggleLayer
  \/ ShowOnlyLayer
  \/ ResetToDefaults
  \/ ToggleCategory
  \/ ImportLayerConfig

SpecLayers == InitCalculations /\ [][NextLayers]_vars

(* ------------------------ actions of the hooks ------------------------- *)

\* updatePosition() is called, by the effect or by its interval, and runs
\* up to its await.
UpdatePosition(h) ==
  /\ hookFetches[h] < MaxFetches
  /\ hookFetches' = [hookFetches EXCEPT ![h] = @ + 1]
  /\ hookPending' = [hookPending EXCEPT ![h] = @ \cup {hookFetches[h] + 1}]
  /\ hookError' = [hookError EXCEPT ![h] = ErrorAtStart(h, @)]
  /\ UNCHANGED <<hookPosition, hookLoading, lastCompleted>>
  /\ UNCHANGED beyondHooks

\* The fetch k of hook h resolves with its data.
FetchResolves(h, k) ==
  /\ k \in hookPending[h]
  /\ hookPending' = [hookPending EXCEPT ![h] = @ \ {k}]
  /\ hookPosition' = [hookPosition EXCEPT ![h] = k]
  /\ hookLoading' = [hookLoading EXCEPT ![h] = FALSE]
  /\ lastCompleted' = [lastCompleted EXCEPT ![h] = [fetch |-> k, ok |-> TRUE]]
  /\ UNCHANGED <<hookError, hookFetches>>
  /\ UNCHANGED beyondHooks

\* The fetch k of hook h rejects.
FetchRejects(h, k) ==
  /\ k \in hookPending[h]
  /\ hookPending' = [hookPending EXCEPT ![h] = @ \ {k}]
  /\ hookError' = [hookError EXCEPT ![h] = ErrorOf(h, k)]
  /\ hookLoading' = [hookLoading EXCEPT ![h] = FALSE]
  /\ lastCompleted' = [lastCompleted EXCEPT ![h] = [fetch |-> k, ok |-> FALSE]]
  /\ UNCHANGED <<hookPosition, hookFetches>>
  /\ UNCHANGED beyondHooks

NextHooks ==
  \E h \in Hooks :
    \/ UpdatePosition(h)
    \/ \E k \in 1..MaxFetches : FetchResolves(h, k)
    \/ \E k \in 1..MaxFetches : FetchRejects(h, k)

SpecHooks == InitCalculations /\ [][NextHooks]_vars

(* ------------------- vocabulary of the properties ---------------------- *)

\* The samples call c has taken, and the passes it has pushed.
SampleSet(c) == {samples[c][i] : i \in 1..Len(samples[c])}
PassSet(c) == {passes[c][i] : i \in 1..Len(passes[c])}

\* The samples that propagated.
OkSamples(c) == {s \in SampleSet(c) : s.ok}

\* The samples of call c that propagated, between the times a and b.
OkSamplesIn(c, a, b) == {s \in OkSamples(c) : a <= s.t /\ s.t <= b}

\* The last step of call c was an iteration whose propagation failed.
FailedStep(c) ==
  /\ Len(samples'[c]) = Len(samples[c]) + 1
  /\ ~samples'[c][Len(samples'[c])].ok

\* The sampled elevations of call c never cross its threshold.
NeverCrosses(c) ==
  \/ \A s \in OkSamples(c) : s.el < minElevation[c]
  \/ \A s \in OkSamples(c) : s.el >= minElevation[c]

(* ------------------------------ C1 ------------------------------------- *)

\* C1 as stated: for every pass pushed, every sample that propagated at a
\* time t with AOS <= t <= LOS, both ends included, has an elevation
\* >= minElevation.  (Fails: the sample at LOS is below the threshold.)
C1_AboveThresholdThroughLos ==
  \A c \in CallIds : \A p \in PassSet(c) :
    \A s \in OkSamplesIn(c, p.aos, p.los) : s.el >= minElevation[c]

\* C1 as amended: for every pass pushed, every sample that propagated at a
\* time t with AOS <= t < LOS has an elevation >= minElevation.
C1_AboveThresholdBeforeLos ==
  \A c \in CallIds : \A p \in PassSet(c) :
    \A s \in OkSamplesIn(c, p.aos, p.los) :
      s.t < p.los => s.el >= minElevation[c]

\* A pass has been pushed that holds two samples before its LOS.
C1_Witness ==
  \E c \in CallIds : \E p \in PassSet(c) :
    \E s1, s2 \in OkSamplesIn(c, p.aos, p.los) :
      s1.t < s2.t /\ s2.t < p.los

(* ------------------------------ C2 ------------------------------------- *)

\* C2: every pass pushed has AOS <= TCA <= LOS, whatever the elevations
\* sampled and whichever samples failed.
C2_AosTcaLosOrdered ==
  \A c \in CallIds : \A p \in PassSet(c) : p.aos <= p.tca /\ p.tca <= p.los

\* A pass has been pushed whose TCA is after its AOS, with a failed sample
\* inside the pass.
C2_Witness ==
  \E c \in CallIds : \E p \in PassSet(c) :
    /\ p.aos < p.tca
    /\ \E s \in SampleSet(c) : ~s.ok /\ p.aos < s.t /\ s.t < p.los

(* ------------------------------ C3 ------------------------------------- *)

C5_ReturnedPassesOrdered ==
  \A c \in CallIds : \A i \in 1..(Len(result[c]) - 1) :
    /\ result[c][i].aos <= result[c][i + 1].aos
    /\ result[c][i].los <= result[c][i + 1].aos

\* A call has returned two passes.
C5_Witness ==
  \E c \in CallIds : pc[c] = "done" /\ Len(result[c]) >= 2

(* ------------------------------ C6 ------------------------------------- *)

\* C6: a pass in progress when the window ends is not returned: the LOS of
\* every pass returned is the time of a sample of the window that propagated
\* and was below the threshold, and no pass returned has the AOS of the pass
\* in progress.
C6_TruncatedPassDropped ==
  \A c \in CallIds :
    pc[c] = "done" =>
      /\ \A i \in 1..Len(result[c]) :
           \E s \in OkSamplesIn(c, startTime[c], endTime[c]) :
             s.t = result[c][i].los /\ s.el < minElevation[c]
      /\ inPass[c] => \A i \in 1..Len(result[c]) : result[c][i].aos # aos[c]

\* A call has returned a pass while another pass was in progress.
C6_Witness ==
  \E c \in CallIds : pc[c] = "done" /\ inPass[c] /\ Len(result[c]) >= 1

(* ------------------------------ C7 ------------------------------------- *)

\* C7: an iteration whose propagation fails leaves inPass, aos, tca, maxEl
\* and passes as they are, leaves the call in the loop and moves t to the
\* next step.
C7_FailedSampleSkipped ==
  [][\A c \in CallIds :
       FailedStep(c) =>
         /\ inPass'[c] = inPass[c]
         /\ aos'[c] = aos[c]
         /\ tca'[c] = tca[c]
         /\ maxEl'[c] = maxEl[c]
         /\ passes'[c] = passes[c]
         /\ pc'[c] = "loop"
         /\ t'[c] = NextSampleTime(t[c], stepSeconds[c])]_vars

\* The last sample failed while a pass was in progress.
C7_Witness ==
  \E c \in CallIds :
    /\ pc[c] = "loop"
    /\ inPass[c]
    /\ Len(samples[c]) >= 2
    /\ ~samples[c][Len(samples[c])].ok

(* ------------------------------ C8 ------------------------------------- *)

\* C8: a call with a zero or negative time window (or a non-positive step)
\* is rejected: it neither enters the loop nor returns a pass list.
C8_InvalidWindowRejected ==
  \A c \in CallIds :
    (pc[c] # "idle" /\ (hours[c] <= 0 \/ stepSeconds[c] <= 0)) =>
      pc[c] \notin {"loop", "done"}

(* ------------------------------ C9 ------------------------------------- *)

\* C9: a scan whose sampled elevations never cross the threshold returns an
\* empty list, and a call fails only before it has taken a sample.
C9_NoCrossingNoPass ==
  \A c \in CallIds :
    /\ (pc[c] = "done" /\ NeverCrosses(c)) => result[c] = <<>>
    /\ pc[c] = "failed" => samples[c] = <<>>

\* A call has returned after sampling only elevations at or above the
\* threshold.
C9_Witness ==
  \E c \in CallIds :
    /\ pc[c] = "done"
    /\ Cardinality(OkSamples(c)) >= 2
    /\ \A s \in OkSamples(c) : s.el >= minElevation[c]

(* ------------------------------ C10 ------------------------------------ *)

\* C10: with two calls running at the same time, each call samples the
\* instants of its own window and returns the pass list a call on its own
\* returns for the same samples and minElevation.
C10_CallsIndependent ==
  \A c \in CallIds :
    pc[c] = "done" =>
      /\ \A k \in 1..Len(samples[c]) :
           samples[c][k].t =
             startTime[c] + (k - 1) * stepSeconds[c] * MsPerSecond
      /\ Len(samples[c]) = (hours[c] * 3600) \div stepSeconds[c] + 1
      /\ result[c] = RunAlone(samples[c], minElevation[c])

\* Both calls have returned, each a pass, and the lists differ.
C10_Witness ==
  /\ pc[1] = "done" /\ pc[2] = "done"
  /\ Len(result[1]) >= 1 /\ Len(result[2]) >= 1
  /\ result[1] # result[2]

(* ------------------------------ C11 ------------------------------------ *)

\* C11: the scan checks the cutoff of its caller once per iteration: once
\* the cutoff is raised no further iteration runs, and the list returned is
\* the list of the passes pushed before.
C11_CutoffStopsScan ==
  [][\A c \in CallIds :
       (cutoff[c] /\ pc[c] = "loop") =>
         /\ samples'[c] = samples[c]
         /\ pc'[c] = "done" => result'[c] = passes[c]]_vars

(* ------------------------------ C15 ------------------------------------ *)

\* The index of the sample of call c taken at time tm is k.
SampledAt(c, k, tm) == k \in 1..Len(samples[c]) /\ samples[c][k].t = tm

\* The sample j of call c is the last one before sample k that propagated.
LastOkBefore(c, j, k) ==
  /\ j \in 1..(k - 1)
  /\ samples[c][j].ok
  /\ \A i \in (j + 1)..(k - 1) : ~samples[c][i].ok

\* C15 as stated: the sample at the AOS of every pass pushed comes right
\* after a sample that propagated and was below the threshold.
\* (Fails: a pass begins at the first sample of the scan when that sample is
\* at or above the threshold, and a failed sample may come before the AOS.)
C15_AosRightAfterBelowSample ==
  \A c \in CallIds : \A p \in PassSet(c) :
    \E k \in 2..Len(samples[c]) :
      /\ SampledAt(c, k, p.aos)
      /\ samples[c][k - 1].ok
      /\ samples[c][k - 1].el < minElevation[c]

\* C15 as amended: the sample at the AOS of every pass pushed is at or above
\* the threshold, and the last sample before it that propagated, if there is
\* one, was below the threshold.
C15_AosAfterLastBelowSample ==
  \A c \in CallIds : \A p \in PassSet(c) :
    \E k \in 1..Len(samples[c]) :
      /\ SampledAt(c, k, p.aos)
      /\ samples[c][k].ok
      /\ samples[c][k].el >= minElevation[c]
      /\ \A j \in 1..(k - 1) :
           LastOkBefore(c, j, k) => samples[c][j].el < minElevation[c]

\* A pass has been pushed whose AOS is the first sample of the scan, and
\* another whose AOS comes after a failed sample.
C15_Witness ==
  \E c \in CallIds : \E p, q \in PassSet(c) :
    /\ p.aos = startTime[c]
    /\ \E k \in 3..Len(samples[c]) :
         SampledAt(c, k, q.aos) /\ ~samples[c][k - 1].ok

(* ------------------------------ C16 ------------------------------------ *)

\* C16: the TCA of every pass pushed is the earliest sample of the pass at
\* which the largest elevation of the pass was sampled.
C16_TcaIsFirstMaximum ==
  \A c \in CallIds : \A p \in PassSet(c) :
    \E s \in OkSamplesIn(c, p.aos, p.los) :
      /\ s.t = p.tca
      /\ \A u \in OkSamplesIn(c, p.aos, p.los) :
           u.el < s.el \/ (u.el = s.el /\ u.t >= s.t)

\* A pass has been pushed in which the largest elevation was sampled twice.
C16_Witness ==
  \E c \in CallIds : \E p \in PassSet(c) :
    \E s, u \in OkSamplesIn(c, p.aos, p.los) :
      s.t = p.tca /\ u.el = s.el /\ u.t > s.t

(* ------------------------------ C17 ------------------------------------ *)

\* The last step of call c was an iteration whose sample propagated.
OkStep(c) ==
  /\ Len(samples'[c]) = Len(samples[c]) + 1
  /\ samples'[c][Len(samples'[c])].ok

\* C17: inside a pass, an iteration whose sample propagated and is below the
\* threshold pushes exactly one pass, with the aos and tca of the pass in
\* progress, the time of the iteration as los and the running maximum
\* (to one decimal) as maxEl, and resets inPass, aos, tca and maxEl.
C17_BelowSampleEndsPass ==
  [][\A c \in CallIds :
       (/\ OkStep(c)
        /\ inPass[c]
        /\ samples'[c][Len(samples'[c])].el < minElevation[c]) =>
         /\ passes'[c] =
              Append(passes[c],
                     [aos |-> aos[c], tca |-> tca[c], los |-> t[c],
                      maxEl |-> ToFixed1(maxEl[c])])
         /\ inPass'[c] = FALSE
         /\ aos'[c] = NULL
         /\ tca'[c] = NULL
         /\ maxEl'[c] = InitialMaxEl]_vars

\* The last sample ended a pass of several samples.
C17_Witness ==
  \E c \in CallIds :
    /\ pc[c] = "loop"
    /\ ~inPass[c]
    /\ Len(samples[c]) >= 3
    /\ Len(passes[c]) >= 1
    /\ passes[c][Len(passes[c])].los = samples[c][Len(samples[c])].t
    /\ passes[c][Len(passes[c])].aos < passes[c][Len(passes[c])].tca

(* ------------------------------ C18 ------------------------------------ *)

\* C18 as stated: in a scan with minElevation 10 (the steps of the model
\* stand for the step of 30 s), every pass pushed has AOS < TCA < LOS.
\* (Fails: the TCA is the AOS when no later sample of the pass is higher.)
C18_AosTcaLosStrict ==
  \A c \in CallIds :
    minElevation[c] = DefaultMinElevation =>
      \A p \in PassSet(c) : p.aos < p.tca /\ p.tca < p.los

\* C18 as amended: in such a scan every pass pushed has AOS <= TCA < LOS.
C18_AosTcaBeforeLos ==
  \A c \in CallIds :
    minElevation[c] = DefaultMinElevation =>
      \A p \in PassSet(c) : p.aos <= p.tca /\ p.tca < p.los

\* A pass of several samples has been pushed, in a scan with minElevation
\* 10, whose first sample was its highest.
C18_Witness ==
  \E c \in CallIds :
    /\ minElevation[c] = DefaultMinElevation
    /\ \E p \in PassSet(c) :
         /\ p.aos = p.tca
         /\ Cardinality(OkSamplesIn(c, p.aos, p.los)) >= 3

(* ------------------------------ C19 ------------------------------------ *)

\* The number of steps in the window of call c: hours * 3600 / stepSeconds.
StepsInWindow(c) == (hours[c] * 3600) \div stepSeconds[c]

\* C19 as stated: a scan of a positive window that has returned has run
\* exactly hours * 3600 / stepSeconds iterations.
\* (Fails: the loop also runs for t = endTime, one iteration more.)
C19_IterationsAsStated ==
  \A c \in CallIds :
    (pc[c] = "done" /\ hours[c] > 0) => Len(samples[c]) = StepsInWindow(c)

\* C19 as amended: a scan of a positive window always returns, and it has
\* then run exactly hours * 3600 / stepSeconds + 1 iterations.
C19_ScanTerminates ==
  /\ [](\A c \in CallIds :
          (pc[c] = "done" /\ hours[c] > 0) =>
            Len(samples[c]) = StepsInWindow(c) + 1)
  /\ \A c \in CallIds :
       [](pc[c] = "loop" /\ hours[c] > 0 => <>(pc[c] = "done"))

\* A scan of the largest window at the smallest step has returned.
C19_Witness ==
  \E c \in CallIds :
    /\ pc[c] = "done"
    /\ hours[c] = MaxHours
    /\ Len(samples[c]) = 2 * MaxHours + 1

(* ------------------------------ C20 ------------------------------------ *)

\* C20: findPasses runs the scan with the values entered: a minimum
\* elevation of 0 to 30 degrees and a whole time window of 1 to 240 hours
\* are the minElevation and the hours of the scan, and a field that is not a
\* number makes the request fail.
C20_ConfigurationNeverDefaulted ==
  \A c \in CallIds :
    pc[c] # "idle" =>
      /\ (fieldMinElevation[c] # NaN /\ fieldMinElevation[c] >= 0
            /\ fieldMinElevation[c] <= 3000) =>
           minElevation[c] = fieldMinElevation[c]
      /\ (fieldTimeWindow[c] # NaN /\ fieldTimeWindow[c] >= 10
            /\ fieldTimeWindow[c] <= 2400 /\ fieldTimeWindow[c] % 10 = 0) =>
           10 * hours[c] = fieldTimeWindow[c]
      /\ (fieldMinElevation[c] = NaN \/ fieldTimeWindow[c] = NaN) =>
           pc[c] = "failed"

(* ------------------------------ C12 ------------------------------------ *)

\* C12: cartesianToSpherical(sphericalToCartesian(lat, lon, r)) is
\* (lat, lon, r) within tolerance, the longitude being the one given and
\* not one 360 degrees away from it.
C12_RoundTripIsIdentity ==
  calcOp = "roundTrip" =>
    /\ Abs(calcValue.latitude - calcArgs.latitude) <= AngleTolerance
    /\ Abs(calcValue.longitude - calcArgs.longitude) <= AngleTolerance
    /\ Abs(calcValue.radius - calcArgs.radius) <= LengthTolerance

(* ------------------------------ C13 ------------------------------------ *)

\* C13: the longitude returned by cartesianToSpherical, and the longitude
\* returned by calculatePositionAfterTime for a longitude given in
\* (-180, 180], are in (-180, 180].
C13_LongitudeNormalized ==
  calcOp \in {"roundTrip", "positionAfterTime"} =>
    -HalfTurn < calcValue.longitude /\ calcValue.longitude <= HalfTurn

(* ------------------------------ C14 ------------------------------------ *)

\* C14 as stated: for any two points, the distance of calculate3DDistance
\* (and of calculateDistance) is <= the distance of calculateSurfaceDistance
\* (within the tolerance of the arithmetic).  (Fails: two points of different altitude above the
\* same place are 0 km apart on the surface.)
C14_StraightAtMostSurface ==
  calcOp = "distances" =>
    /\ calcValue.straight <= calcValue.surface + LengthTolerance
    /\ calcValue.distance <= calcValue.surface + LengthTolerance

\* C14 as amended: for any two points of altitude 0, the distance of
\* calculate3DDistance (and of calculateDistance) is <= the distance of
\* calculateSurfaceDistance (within the tolerance of the arithmetic).
C14_StraightAtMostSurfaceOnGround ==
  (calcOp = "distances" /\ calcArgs.alt1 = 0 /\ calcArgs.alt2 = 0) =>
    /\ calcValue.straight <= calcValue.surface + LengthTolerance
    /\ calcValue.distance <= calcValue.surface + LengthTolerance

\* The two distances of two different places on the ground, the straight
\* one being well below the one on the surface.
C14_Witness ==
  /\ calcOp = "distances"
  /\ calcArgs.alt1 = 0 /\ calcArgs.alt2 = 0
  /\ calcValue.straight > 0
  /\ calcValue.distance = calcValue.straight
  /\ calcValue.straight + 10 * LengthTolerance < calcValue.surface

(* ------------------------------ C21 ------------------------------------ *)

\* C21: calculateISSDistance returns null exactly when the latitude or the
\* longitude of the observer is missing, latitude 0 and longitude 0 being
\* known numbers, and useISSDistance then reports the number returned and
\* not null / 'Unknown'.
C21_DistanceForEveryKnownObserver ==
  calcOp = "issDistance" =>
    LET known == /\ calcArgs.userLocation.latitude # Undefined
                 /\ calcArgs.userLocation.longitude # Undefined
    IN  /\ (calcValue.returned = NULL) <=> ~known
        /\ known => /\ calcValue.hook.distance = calcValue.returned
                    /\ calcValue.hook.formattedDistance # "Unknown"

(* ------------------------------ C22 ------------------------------------ *)

\* C22: ISSDataManager has at most one running refresh timer, and it is the
\* one this.updateInterval names, so that stopDataUpdates cancels every
\* running timer.
C22_OneRefreshTimer ==
  \A i \in ActiveIntervals : updateInterval = i

(* ------------------------------ C23 ------------------------------------ *)

\* C23: while the prediction modal is open no request is in flight, and no
\* request is ever started while it is open.
C23_PausedWhileModalOpen ==
  /\ modalOpen => \A k \in DOMAIN requests : ~InFlight(requests[k])
  /\ \A k \in DOMAIN requests : ~requests[k].duringModal

(* ------------------------------ C24 ------------------------------------ *)

\* C24: at most one ISS position request is in flight at any time.
C24_OneRequestInFlight ==
  Cardinality({k \in DOMAIN requests : InFlight(requests[k])}) <= 1

(* ------------------------------ C25 ------------------------------------ *)

\* C25: no request is in flight later than NETWORK_TIMEOUT after its start,
\* and the timeout of a request aborts no other request.
C25_TimeoutAbortsOwnRequest ==
  \A k \in DOMAIN requests :
    /\ InFlight(requests[k]) => clock <= requests[k].started + NetworkTimeout
    /\ requests[k].abortedBy > 0 => requests[k].abortedBy = k

(* ------------------------------ C26 ------------------------------------ *)

\* C26: withRetry(operation, n) invokes operation at least once and at most
\* n times, one invocation after the other has settled; it resolves with
\* the result of the first invocation that succeeds and invokes operation
\* no more after it; if n invocations fail it rejects with the error of the
\* last one.
C26_RetryAtMostN ==
  retryPc # "idle" =>
    /\ 1 <= retryCalls /\ retryCalls <= retryN
    /\ retryCalls = Len(retryLog) + (IF retryPc = "operation" THEN 1 ELSE 0)
    /\ \A i \in 1..(Len(retryLog) - 1) : ~retryLog[i].ok
    /\ retryPc = "settled" =>
         LET last == retryLog[Len(retryLog)]
         IN  IF last.ok
               THEN retryResult = <<"resolved", last.value>>
               ELSE /\ retryResult = <<"rejected", last.value>>
                    /\ retryCalls = retryN
    /\ retryPc # "settled" => \A i \in 1..Len(retryLog) : ~retryLog[i].ok

\* The default three attempts: two fail, the third succeeds; and a call
\* whose attempts all failed.
C26_Witness ==
  /\ retryPc = "settled"
  /\ retryN = RetryAttempts
  /\ retryCalls = RetryAttempts
  /\ retryResult = <<"resolved", "v2">>
  /\ retryLog[1].value = "e1" /\ retryLog[2].value = "e2"

(* ------------------------------ C27 ------------------------------------ *)

\* The most recent set of the key is there for a get at time tm: the key
\* was set, not cleared since, and no more than its ttl has elapsed.
Live(key, tm) ==
  /\ key \in DOMAIN lastSet
  /\ key \notin clearedKeys
  /\ tm - lastSet[key].timestamp <= lastSet[key].ttl

\* C27: after any sequence of set, get, clear and clearExpired, get(key)
\* returns the data of the most recent set(key) if and only if that entry
\* was not clearedKeys and no more than its ttl has elapsed since that set;
\* otherwise it returns null, and an expired entry is no longer in the
\* cache after the get that found it.
C27_GetReturnsLiveEntry ==
  cacheOp = "get" =>
    IF Live(getKey, cacheNow)
      THEN /\ getValue = lastSet[getKey].data
           /\ getKey \in DOMAIN cache
      ELSE /\ getValue = NULL
           /\ getKey \notin DOMAIN cache

\* A get that returns the data exactly ttl after the set, another key
\* having expired and been set again in between.
C27_Witness ==
  /\ cacheOp = "get"
  /\ getValue # NULL
  /\ lastSet[getKey].ttl > 0
  /\ cacheNow - lastSet[getKey].timestamp = lastSet[getKey].ttl
  /\ \E k \in DOMAIN lastSet : k # getKey /\ k \notin DOMAIN cache

(* ------------------------------ C28 ------------------------------------ *)

\* C28: after every iteration of the scan, inPass is true exactly when aos
\* and tca are both set, and then aos <= tca <= the time of the iteration
\* and maxEl >= minElevation; when inPass is false, aos and tca are null
\* and maxEl is -90.
C28_DetectorConsistent ==
  \A c \in CallIds :
    pc[c] \in {"loop", "done"} =>
      /\ inPass[c] <=> (aos[c] # NULL /\ tca[c] # NULL)
      /\ inPass[c] =>
           /\ aos[c] <= tca[c]
           /\ samples[c] # <<>>
           /\ tca[c] <= samples[c][Len(samples[c])].t
           /\ maxEl[c] >= minElevation[c]
      /\ ~inPass[c] =>
           /\ aos[c] = NULL /\ tca[c] = NULL
           /\ maxEl[c] = InitialMaxEl

\* A scan inside a pass whose maximum came after AOS and was followed by a
\* failed sample, after an earlier pass was closed.
C28_Witness ==
  \E c \in CallIds :
    /\ pc[c] = "loop"
    /\ inPass[c]
    /\ aos[c] < tca[c]
    /\ tca[c] < samples[c][Len(samples[c])].t
    /\ ~samples[c][Len(samples[c])].ok
    /\ passes[c] # <<>>

(* ------------------------------ C29 ------------------------------------ *)

\* C29: after any sequence of toggleLayer, showOnlyLayer, resetToDefaults,
\* toggleCategory and importLayerConfig, at most one base layer is enabled.
C29_OneBaseLayerEnabled ==
  Cardinality({l \in Range(BaseLayers) : layerEnabled[l]}) <= 1

(* ------------------------------ C30 ------------------------------------ *)

\* C30: in both hooks, whenever the fetch that completed last succeeded,
\* error is null and position is the data of that fetch.
C30_SuccessClearsError ==
  \A h \in Hooks :
    lastCompleted[h].ok =>
      /\ hookError[h] = NULL
      /\ hookPosition[h] = lastCompleted[h].fetch

====
